---- MODULE Spec2Model ----
(***************************************************************************)
(* The consumer of BDP26/pm4-github-insights (src/consumer/consumer.py):   *)
(* the main loop that polls the queue, enriches an event with the actor's  *)
(* profile and location, writes one row per event id and commits the       *)
(* queue offset, together with the two process-lifetime caches; and the    *)
(* producer (src/producer/producer.py), which polls the events API and     *)
(* publishes the events it has not seen to the queue.                      *)
(*                                                                         *)
(* Text is modelled as a sequence of one-character strings so that         *)
(* lower(), strip() and upper()[:2] are computed, not assumed; a number    *)
(* in a JSON body is the text of its digits.  Python's None is the        *)
(* one-element sequence <<"None">>, which no text of the model equals; a   *)
(* dict is a function from keys to values and {} is the function with the  *)
(* empty domain.                                                           *)
(***************************************************************************)
EXTENDS Integers, Sequences, FiniteSets, TLC

VARIABLES
    log,            \* the topic github.events.raw: the sequence of message bodies
    committed,      \* the consumer group's committed offset (next offset to deliver)
    db,             \* the events table: rows of committed transactions, in insertion order
    storeUp,        \* whether the database accepts connections and statements
    pc,             \* where the consumer process is
    position,       \* the consumer's in-memory fetch position (next offset poll() returns)
    msg,            \* offset of the message being processed (0: none)
    event,          \* the decoded event of the current message
    profile,        \* the profile fetch_profile returned for the current message
    txn,            \* rows inserted by the open, uncommitted transaction of conn
    conn,           \* the state of the connection the loop holds
    processed,      \* counter of main()
    errors,         \* counter of main()
    exc,            \* the exception that ended the process, and where it rose
    user_cache,     \* module-level dict login -> profile
    geocode_cache,  \* module-level dict normalised location -> geocode result
    calls,          \* the enrichment calls made by the caller of SpecEnrich, with what each did
    consumer,       \* the state of the Kafka consumer of the process
    seen_ids,       \* producer.py: the set of event ids already fetched
    last_etag,      \* producer.py: the ETag of the last first page
    poll_count,     \* producer.py: counter of poll cycles
    sent_total,     \* producer.py: counter of published events
    new_events,     \* producer.py: the events fetch_events returned to main()
    ppc             \* where the producer process is

vars == << log, committed, db, storeUp, pc, position, msg, event, profile, txn,
           conn, processed, errors, exc, user_cache, geocode_cache, calls, consumer,
           seen_ids, last_etag, poll_count, sent_total, new_events, ppc >>

\* the variables of the producer process
producer_vars == << seen_ids, last_etag, poll_count, sent_total, new_events, ppc >>

None == <<"None">>

\* no exception: the call returned
NoExc == "none"

(***************************************************************************)
(* Bounds of the model.                                                    *)
(***************************************************************************)
\* number of messages in the topic
MaxLog == 2
\* the error events of the broker are counted up to this value of the errors counter
MaxPollErrors == 1
\* number of enrichment calls a behaviour of SpecEnrich makes
MaxCalls == 2
\* number of poll cycles a behaviour of SpecProducer makes
MaxPolls == 2

(***************************************************************************)
(* Python values.                                                          *)
(***************************************************************************)
\* {} : the dict with no keys
EmptyDict == [k \in {} |-> None]

\* d.get(k): the value under k, None when the key is absent
Get(d, k) == IF k \in DOMAIN d THEN d[k] ELSE None

\* d.get(k, default)
GetOr(d, k, default) == IF k \in DOMAIN d THEN d[k] ELSE default

\* x or y, for x a text or None: the empty text and None are falsy
Or(x, y) == IF x = None \/ x = <<>> THEN y ELSE x

\* a cache that keeps the latest entry only
PutEvicting(cache, key, value) == [k \in {key} |-> value]

\* a cache that stores the results of successful lookups only
PutSuccessOnly(cache, key, value) ==
    IF DOMAIN value = {} THEN cache
    ELSE [k \in DOMAIN cache \cup {key} |-> IF k = key THEN value ELSE cache[k]]

\* cache[key] = value
Put(cache, key, value) ==
    [k \in DOMAIN cache \cup {key} |-> IF k = key THEN value ELSE cache[k]]

\* str.lower() on one character
LowerChar(c) ==
    CASE c = "Z" -> "z"
      [] c = "C" -> "c"
      [] c = "H" -> "h"
      [] c = "E" -> "e"
      [] OTHER -> c

\* str.upper() on one character
UpperChar(c) ==
    CASE c = "z" -> "Z"
      [] c = "c" -> "C"
      [] c = "h" -> "H"
      [] c = "e" -> "E"
      [] OTHER -> c

Lower(s) == [i \in 1..Len(s) |-> LowerChar(s[i])]

Upper(s) == [i \in 1..Len(s) |-> UpperChar(s[i])]

\* s[:n]
Take(s, n) == IF Len(s) <= n THEN s ELSE SubSeq(s, 1, n)

RECURSIVE LStrip(_, _)
LStrip(s, chars) ==
    IF s # <<>> /\ Head(s) \in chars THEN LStrip(Tail(s), chars) ELSE s

RECURSIVE RStrip(_, _)
RStrip(s, chars) ==
    IF s # <<>> /\ s[Len(s)] \in chars
    THEN RStrip(SubSeq(s, 1, Len(s) - 1), chars)
    ELSE s

\* s.strip(chars)
StripChars(s, chars) == RStrip(LStrip(s, chars), chars)

\* s.strip(): surrounding whitespace
Strip(s) == StripChars(s, {" "})

(***************************************************************************)
(* geocode (consumer.py 67-98).                                            *)
(*                                                                         *)
(* A response of the geocoding service is one of                           *)
(*   [kind |-> "hits", hit |-> h]  status 200, a list whose first element  *)
(*                                 is the dict h;                          *)
(*   [kind |-> "nohits"]           status 200, the empty list;             *)
(*   [kind |-> "status"]           a status other than 200;                *)
(*   [kind |-> "transport"]        requests.RequestException;              *)
(*   [kind |-> "object"]           status 200, a non-empty JSON object:    *)
(*                                 hits[0] raises KeyError;                *)
(* A hit whose lat or lon is not the text of a number makes float() raise  *)
(* ValueError.                                                             *)
(***************************************************************************)
\* the key of line 70
GeoKey(location) == Strip(Lower(location))

\* the texts float() accepts, among those the model's responses carry
IsNumber(v) == v \in {<<"0">>, <<"8">>, <<"4", "7">>}

\* float(h.get("lat", 0)) or None: float("0") is 0.0, which is falsy
FloatOrNone(h, k) ==
    LET v == GetOr(h, k, <<"0">>) IN IF v = <<"0">> THEN None ELSE v

\* lines 85-92: the result built from the first hit
GeoResult(h) ==
    LET adr == GetOr(h, "address", EmptyDict) IN
    [ country      |-> Get(adr, "country"),
      country_code |-> Or(Take(Upper(Or(Get(adr, "country_code"), <<>>)), 2), None),
      lat          |-> FloatOrNone(h, "lat"),
      lng          |-> FloatOrNone(h, "lon") ]

\* geocode(location) against the cache `cache`, the service answering `resp`:
\* the new cache, the returned dict, the number of requests and of sleeps,
\* and the exception that left the function (None: it returned)
Geocode(cache, location, resp) ==
    LET key == GeoKey(location) IN
    IF location = <<>> \/ location = None THEN
        [ cache |-> cache, result |-> EmptyDict, requests |-> 0, sleeps |-> 0,
          raised |-> NoExc ]
    ELSE IF key \in DOMAIN cache THEN
        [ cache |-> cache, result |-> cache[key], requests |-> 0, sleeps |-> 0,
          raised |-> NoExc ]
    ELSE IF resp.kind = "object" THEN
        [ cache |-> cache, result |-> EmptyDict, requests |-> 1, sleeps |-> 0,
          raised |-> "KeyError" ]
    ELSE IF resp.kind = "hits"
            /\ ~(IsNumber(GetOr(resp.hit, "lat", <<"0">>))
                 /\ IsNumber(GetOr(resp.hit, "lon", <<"0">>))) THEN
        [ cache |-> cache, result |-> EmptyDict, requests |-> 1, sleeps |-> 0,
          raised |-> "ValueError" ]
    ELSE
        LET result == IF resp.kind = "hits" THEN GeoResult(resp.hit) ELSE EmptyDict IN
        [ cache |-> Put(cache, key, result), result |-> result, requests |-> 1,
          sleeps |-> 1, raised |-> NoExc ]

(***************************************************************************)
(* fetch_profile (consumer.py 101-130).                                    *)
(*                                                                         *)
(* A response of the identity API is one of                                *)
(*   [kind |-> "ok", body |-> d]   status 200, the JSON object d;          *)
(*   [kind |-> "status"]           a status other than 200 (404, 403 ...); *)
(*   [kind |-> "transport"]        requests.RequestException;              *)
(*   [kind |-> "notobject"]        status 200, a JSON body that is not an  *)
(*                                 object: d.get raises AttributeError.    *)
(***************************************************************************)
\* lines 105-109
NullProfile ==
    [ location |-> None, company |-> None, public_repos |-> None,
      country |-> None, country_code |-> None, lat |-> None, lng |-> None ]

\* lines 117-121: the fields taken from a 200 response
ProfileOf(d) ==
    [ NullProfile EXCEPT
        !.location     = Or(Get(d, "location"), None),
        !.company      = Or(Strip(StripChars(Or(Get(d, "company"), <<>>), {"@", " "})), None),
        !.public_repos = Get(d, "public_repos") ]

\* a merge that takes lat and lng from each other's field
MergeGeoSwapped(p, geo) ==
    [ p EXCEPT
        !.country      = Get(geo, "country"),
        !.country_code = Get(geo, "country_code"),
        !.lat          = Get(geo, "lng"),
        !.lng          = Get(geo, "lat") ]

\* line 127: profile.update({k: geo.get(k) for k in (...)})
MergeGeo(p, geo) ==
    [ p EXCEPT
        !.country      = Get(geo, "country"),
        !.country_code = Get(geo, "country_code"),
        !.lat          = Get(geo, "lat"),
        !.lng          = Get(geo, "lng") ]

\* fetch_profile(username) against the two caches, the identity API answering
\* ghResp and the geocoding service geoResp: the new caches, the returned
\* profile, the requests and sleeps made, and the exception that left the
\* function (None: it returned)
FetchProfile(ucache, gcache, username, ghResp, geoResp) ==
    IF username \in DOMAIN ucache THEN
        [ user_cache |-> ucache, geocode_cache |-> gcache, result |-> ucache[username],
          gh_requests |-> 0, geo_requests |-> 0, sleeps |-> 0, raised |-> NoExc ]
    ELSE IF ghResp.kind = "notobject" THEN
        [ user_cache |-> ucache, geocode_cache |-> gcache, result |-> NullProfile,
          gh_requests |-> 1, geo_requests |-> 0, sleeps |-> 0,
          raised |-> "AttributeError" ]
    ELSE
        LET p1  == IF ghResp.kind = "ok" THEN ProfileOf(ghResp.body) ELSE NullProfile
            geo == Geocode(gcache, p1.location, geoResp)
        IN  IF p1.location = None THEN
                [ user_cache |-> Put(ucache, username, p1), geocode_cache |-> gcache,
                  result |-> p1, gh_requests |-> 1, geo_requests |-> 0, sleeps |-> 0,
                  raised |-> NoExc ]
            ELSE IF geo.raised # NoExc THEN
                [ user_cache |-> ucache, geocode_cache |-> geo.cache, result |-> NullProfile,
                  gh_requests |-> 1, geo_requests |-> geo.requests,
                  sleeps |-> geo.sleeps, raised |-> geo.raised ]
            ELSE
                LET p2 == MergeGeo(p1, geo.result) IN
                [ user_cache |-> Put(ucache, username, p2), geocode_cache |-> geo.cache,
                  result |-> p2, gh_requests |-> 1, geo_requests |-> geo.requests,
                  sleeps |-> geo.sleeps, raised |-> NoExc ]

(***************************************************************************)
(* The exceptions the malformed-message clause of main() absorbs           *)
(* (consumer.py 257).  The errors of the store go to the clause of line    *)
(* 261; any other exception leaves the while loop and ends the process.    *)
(***************************************************************************)
\* line 257: except (json.JSONDecodeError, KeyError)
IsMalformedError(e) == e \in {"JSONDecodeError", "KeyError"}

(***************************************************************************)
(* What the external services can answer.                                  *)
(***************************************************************************)
Logins == { <<"a">>, <<"b">> }

\* free-text locations, as a profile carries them or a caller passes them
Locations == { <<>>, <<" ">>, <<"Z">>, <<" ", "z">>, <<"c">> }

GithubBodies ==
    { [ location |-> <<"Z">>, company |-> <<"@", "c", " ">>, public_repos |-> <<"8">> ],
      [ location |-> <<" ", "z">>, company |-> None, public_repos |-> <<"0">> ],
      [ location |-> <<>>, company |-> <<"@">>, public_repos |-> <<"8">> ],
      EmptyDict }

GithubResponses ==
    { [ kind |-> "ok", body |-> d ] : d \in GithubBodies }
        \cup { [ kind |-> k ] : k \in {"status", "transport", "notobject"} }

GeoHits ==
    { [ address |-> [ country |-> <<"C", "H">>, country_code |-> <<"c", "h">> ],
        lat |-> <<"4", "7">>, lon |-> <<"8">> ],
      [ address |-> [ country |-> <<"C", "H">>, country_code |-> <<"c", "h", "e">> ],
        lat |-> <<"0">>, lon |-> <<"8">> ],
      [ lon |-> <<"8">> ],
      [ address |-> [ country |-> <<"C", "H">> ], lat |-> <<"x">>, lon |-> <<"8">> ] }

GeoResponses ==
    { [ kind |-> "hits", hit |-> h ] : h \in GeoHits }
        \cup { [ kind |-> k ] : k \in {"nohits", "status", "transport", "object"} }

(***************************************************************************)
(* extract_detail (consumer.py 135-148).  An f-string is the concatenation *)
(* of its parts; str(None) is the text None.                               *)
(***************************************************************************)
\* str(n) for the lengths the model's payloads have
Digits(n) == IF n = 0 THEN <<"0">> ELSE IF n = 1 THEN <<"1">> ELSE IF n = 2 THEN <<"2">> ELSE <<"3">>

\* an extract_detail whose watch branch has the default of the other branches
extract_detail_empty_default(e) ==
    LET etype   == GetOr(e, "type", <<>>)
        payload == GetOr(e, "payload", EmptyDict)
    IN  IF etype = <<"PushEvent">> THEN
            Digits(Len(GetOr(payload, "commits", <<>>))) \o <<" commit(s)">>
        ELSE IF etype \in { <<"PullRequestEvent">>, <<"IssuesEvent">> } THEN
            GetOr(payload, "action", <<>>)
        ELSE IF etype = <<"CreateEvent">> THEN
            GetOr(payload, "ref_type", <<>>) \o <<" '">> \o GetOr(payload, "ref", <<>>) \o <<"'">>
        ELSE IF etype = <<"WatchEvent">> THEN
            GetOr(payload, "action", <<>>)
        ELSE IF etype = <<"ReleaseEvent">> THEN
            <<"tag ">> \o GetOr(GetOr(payload, "release", EmptyDict), "tag_name", <<>>)
        ELSE <<>>

extract_detail(e) ==
    LET etype   == GetOr(e, "type", <<>>)
        payload == GetOr(e, "payload", EmptyDict)
    IN  IF etype = <<"PushEvent">> THEN
            Digits(Len(GetOr(payload, "commits", <<>>))) \o <<" commit(s)">>
        ELSE IF etype \in { <<"PullRequestEvent">>, <<"IssuesEvent">> } THEN
            GetOr(payload, "action", <<>>)
        ELSE IF etype = <<"CreateEvent">> THEN
            GetOr(payload, "ref_type", <<>>) \o <<" '">> \o GetOr(payload, "ref", <<>>) \o <<"'">>
        ELSE IF etype = <<"WatchEvent">> THEN
            GetOr(payload, "action", <<"starred">>)
        ELSE IF etype = <<"ReleaseEvent">> THEN
            <<"tag ">> \o GetOr(GetOr(payload, "release", EmptyDict), "tag_name", <<>>)
        ELSE <<>>

(***************************************************************************)
(* write_event and the events table (consumer.py 153-199).                 *)
(***************************************************************************)
\* the texts strptime(ts_raw, "%Y-%m-%dT%H:%M:%SZ") accepts
IsTimestamp(ts) == ts \in { <<"2026-01-01T00:00:00Z">> }

\* datetime.now(timezone.utc)
Now == <<"now">>

\* a JSON number as the value of created_at
NumericCreatedAt == <<"1767225600">>

\* isinstance(v, str), among the values created_at has in the model's messages:
\* null and the number are not
IsStr(v) == v \notin { None, NumericCreatedAt }

\* lines 178-182: strptime raises ValueError, which line 181 catches, for a str
\* of another format, and TypeError, which nothing in write_event catches, for
\* an argument that is not a str
TimestampRaises(e) ==
    IF IsStr(GetOr(e, "created_at", <<>>)) THEN NoExc ELSE "TypeError"

\* lines 178-182: the parsed created_at, or the wall clock when it does not parse
EventTime(e) ==
    LET ts_raw == GetOr(e, "created_at", <<>>) IN
    IF IsTimestamp(ts_raw) THEN ts_raw ELSE Now

\* lines 184-199: the parameters of the INSERT
RowOf(e, p) ==
    [ time         |-> EventTime(e),
      event_id     |-> Get(e, "id"),
      event_type   |-> Get(e, "type"),
      actor        |-> Get(GetOr(e, "actor", EmptyDict), "login"),
      repo         |-> Get(GetOr(e, "repo", EmptyDict), "name"),
      detail       |-> extract_detail(e),
      location     |-> Get(p, "location"),
      country      |-> Get(p, "country"),
      country_code |-> Get(p, "country_code"),
      lat          |-> Get(p, "lat"),
      lng          |-> Get(p, "lng"),
      company      |-> Get(p, "company"),
      public_repos |-> Get(p, "public_repos"),
      payload      |-> GetOr(e, "payload", EmptyDict) ]

\* the unique constraint of the events table: two rows conflict when they carry
\* the same event id (a NULL conflicts with nothing)
Conflict(r1, r2) == r1.event_id # None /\ r1.event_id = r2.event_id

\* INSERT ... without a conflict clause, were the constraint not enforced
InsertAlways(table, row) == Append(table, row)

\* INSERT_SQL, lines 153-164: INSERT ... ON CONFLICT DO NOTHING
InsertSql(table, row) ==
    IF \E i \in 1..Len(table) : Conflict(row, table[i]) THEN table ELSE Append(table, row)

\* the rows the connection sees: the committed ones and its own uncommitted ones
Visible == db \o txn.rows

\* no statement since the last commit or rollback
TxnIdle == [ open |-> FALSE, rows |-> <<>> ]

(***************************************************************************)
(* The messages of the topic.                                              *)
(*   [kind |-> "object", event |-> e]  the JSON object e;                  *)
(*   [kind |-> "badutf8"]    bytes that are not UTF-8: decode raises       *)
(*                           UnicodeDecodeError;                           *)
(*   [kind |-> "badjson"]    text that is not JSON: JSONDecodeError;       *)
(*   [kind |-> "notobject"]  a JSON value that is not an object:           *)
(*                           event.get raises AttributeError.              *)
(***************************************************************************)
GoodEvent(id, type, login, payload) ==
    [ id |-> id, type |-> type, actor |-> [ login |-> login ],
      repo |-> [ name |-> <<"r">> ], payload |-> payload,
      created_at |-> <<"2026-01-01T00:00:00Z">> ]

\* an event that lacks created_at
EventNoCreatedAt ==
    [ id |-> <<"3">>, type |-> <<"WatchEvent">>, actor |-> [ login |-> <<"a">> ],
      repo |-> [ name |-> <<"r">> ], payload |-> EmptyDict ]

Events ==
    { GoodEvent(<<"1">>, <<"PushEvent">>, <<"a">>, [ commits |-> <<"c1">> ]),
      GoodEvent(<<"2">>, <<"ReleaseEvent">>, <<"a">>, [ release |-> [ tag_name |-> <<"v2">> ] ]) }

Messages ==
    { [ kind |-> "object", event |-> e ] : e \in Events }
        \cup { [ kind |-> k, event |-> EmptyDict ] : k \in {"badutf8", "badjson", "notobject"} }

\* the event with this id and this value of created_at
TimestampEvent(id, v) ==
    [ GoodEvent(id, <<"WatchEvent">>, <<"a">>, EmptyDict) EXCEPT !.created_at = v ]

\* one event per value of created_at, and one without the field
TimestampEvents ==
    { TimestampEvent(<<"4">>, <<"2026-01-01T00:00:00Z">>),
      TimestampEvent(<<"5">>, <<"2026-01-01 00:00">>),
      TimestampEvent(<<"6">>, <<>>),
      TimestampEvent(<<"7">>, None),
      TimestampEvent(<<"8">>, NumericCreatedAt),
      EventNoCreatedAt }

TimestampMessages == { [ kind |-> "object", event |-> e ] : e \in TimestampEvents }

RequiredFields == { "id", "type", "created_at" }

\* the fields section 6 of the specification requires of a message
HasRequiredFields(e) ==
    /\ \A k \in RequiredFields : Get(e, k) # None
    /\ Get(GetOr(e, "actor", EmptyDict), "login") # None
    /\ Get(GetOr(e, "repo", EmptyDict), "name") # None

WellFormed(m) == m.kind = "object" /\ HasRequiredFields(m.event)

\* what the services answer in Spec
MainGithubResponses ==
    { [ kind |-> "ok", body |-> [ location |-> <<"Z">>, company |-> None,
                                  public_repos |-> <<"8">> ] ],
      [ kind |-> "status" ], [ kind |-> "notobject" ] }

MainGeoResponses ==
    { [ kind |-> "hits", hit |-> [ address |-> [ country |-> <<"C", "H">>,
                                                  country_code |-> <<"c", "h">> ],
                                   lat |-> <<"4", "7">>, lon |-> <<"8">> ] ],
      [ kind |-> "object" ] }

\* producer.py 67-71: the module-level state of a producer that has not polled yet
ProducerInit ==
    /\ seen_ids = {}
    /\ last_etag = <<>>
    /\ poll_count = 0
    /\ sent_total = 0
    /\ new_events = <<>>
    /\ ppc = "P_FETCH"

(***************************************************************************)
(* main (consumer.py 204-277).                                             *)
(***************************************************************************)
NoException == [ type |-> NoExc, at |-> "none" ]

Init ==
    /\ log \in [ 1..MaxLog -> Messages ]
    /\ committed = 1
    /\ db = <<>>
    /\ storeUp = TRUE
    /\ pc = "STARTING"
    /\ position = 1
    /\ msg = 0
    /\ event = EmptyDict
    /\ profile = EmptyDict
    /\ txn = TxnIdle
    /\ conn = "none"
    /\ processed = 0
    /\ errors = 0
    /\ exc = NoException
    /\ user_cache = EmptyDict
    /\ geocode_cache = EmptyDict
    /\ calls = <<>>
    /\ consumer = "subscribed"
    /\ ProducerInit

\* the process is gone: its memory and the open transaction of its connection with it
ProcessGone ==
    /\ position' = 0
    /\ msg' = 0
    /\ event' = EmptyDict
    /\ profile' = EmptyDict
    /\ txn' = TxnIdle
    /\ processed' = 0
    /\ errors' = 0
    /\ user_cache' = EmptyDict
    /\ geocode_cache' = EmptyDict

\* a close() that commits the consumer's position, as with enable.auto.commit set
CommittedAtCloseAuto == IF position > committed THEN position ELSE committed

\* the committed offset after consumer.close() (276): with enable.auto.commit
\* False (215) close() commits nothing
CommittedAtClose == committed

\* lines 275-277: the finally clause closes the consumer and the connection;
\* close() of a connection already closed does nothing
Finally ==
    /\ consumer' = "closed"
    /\ conn' = "closed"
    /\ committed' = CommittedAtClose

\* an exception no except clause of main() names leaves the while loop; the
\* finally clause (275-277) closes consumer and connection and the process ends
Exit(type) ==
    /\ pc' = "EXITED"
    /\ exc' = [ type |-> type, at |-> pc ]
    /\ Finally
    /\ ProcessGone
    /\ UNCHANGED << log, db, storeUp, calls, producer_vars >>

\* where the try block goes when `type` is raised in it (257, 261)
Raise(type) ==
    IF IsMalformedError(type) THEN
        /\ pc' = "MALFORMED"
        /\ UNCHANGED << log, committed, db, storeUp, calls, exc, position, msg, event,
                        profile, txn, conn, processed, errors, user_cache, geocode_cache, consumer, producer_vars >>
    ELSE Exit(type)

\* the next iteration of the while loop (228): msg, event and profile are
\* assigned anew before they are read, so what they held is dropped here
BackToPolling ==
    /\ pc' = "POLLING"
    /\ msg' = 0
    /\ event' = EmptyDict
    /\ profile' = EmptyDict

\* a consumer that ignores the committed offset and starts at the end of the topic
RestartAtEnd == Len(log) + 1

\* the offset a new consumer of the group starts from (211-219): the committed one
RestartPosition == committed

\* a db_connect that makes one attempt and returns whatever it got
DbConnectOnce ==
    /\ pc = "STARTING"
    /\ conn' = IF storeUp THEN "open" ELSE "none"
    /\ pc' = "POLLING"
    /\ UNCHANGED << log, committed, db, storeUp, position, msg, event, profile, txn,
                    processed, errors, exc, user_cache, geocode_cache, calls, consumer, producer_vars >>

\* lines 166-174 at 221-222: db_connect returns once the store accepts the connection
DbConnect ==
    /\ pc = "STARTING"
    /\ storeUp
    /\ conn' = "open"
    /\ pc' = "POLLING"
    /\ UNCHANGED << log, committed, db, storeUp, position, msg, event, profile, txn,
                    processed, errors, exc, user_cache, geocode_cache, calls, consumer, producer_vars >>

\* lines 169, 172-174: psycopg2.connect raises OperationalError while the store is
\* unreachable; db_connect logs it and sleeps three seconds
DbConnectFails ==
    /\ pc = "STARTING"
    /\ ~storeUp
    /\ pc' = "STARTING_SLEEP"
    /\ UNCHANGED << log, committed, db, storeUp, position, msg, event, profile, txn,
                    conn, processed, errors, exc, user_cache, geocode_cache, calls, consumer, producer_vars >>

\* lines 174, 167: the sleep is over and the loop of db_connect tries again
DbConnectRetry ==
    /\ pc = "STARTING_SLEEP"
    /\ pc' = "STARTING"
    /\ UNCHANGED << log, committed, db, storeUp, position, msg, event, profile, txn,
                    conn, processed, errors, exc, user_cache, geocode_cache, calls, consumer, producer_vars >>

\* line 229 with a message: poll() hands out the message at the position and advances it
Poll ==
    /\ pc = "POLLING"
    /\ position <= Len(log)
    /\ msg' = position
    /\ position' = position + 1
    /\ pc' = "PARSING"
    /\ UNCHANGED << log, committed, db, storeUp, event, profile, txn, conn,
                    processed, errors, exc, user_cache, geocode_cache, calls, consumer, producer_vars >>

\* lines 234-239: poll() hands out an error event that is not the end of a
\* partition; no message is consumed
PollError ==
    /\ pc = "POLLING"
    /\ errors < MaxPollErrors
    /\ errors' = errors + 1
    /\ UNCHANGED << log, committed, db, storeUp, pc, position, msg, event, profile, txn,
                    conn, processed, exc, user_cache, geocode_cache, calls, consumer, producer_vars >>

\* lines 242-243: decode, json.loads, and the actor's login
Parse ==
    /\ pc = "PARSING"
    /\ LET m == log[msg] IN
        IF m.kind = "badutf8" THEN Raise("UnicodeDecodeError")
        ELSE IF m.kind = "badjson" THEN Raise("JSONDecodeError")
        ELSE IF m.kind = "notobject" THEN Raise("AttributeError")
        ELSE
            /\ event' = m.event
            /\ pc' = "ENRICHING"
            /\ UNCHANGED << log, committed, db, storeUp, position, msg, profile, txn, conn,
                            processed, errors, exc, user_cache, geocode_cache, calls, consumer, producer_vars >>

\* line 243: event.get("actor", {}).get("login", "")
ActorOf(e) == GetOr(GetOr(e, "actor", EmptyDict), "login", <<>>)

\* line 244: fetch_profile(actor)
Enrich ==
    /\ pc = "ENRICHING"
    /\ \E ghResp \in MainGithubResponses, geoResp \in MainGeoResponses :
        LET r == FetchProfile(user_cache, geocode_cache, ActorOf(event), ghResp, geoResp) IN
        IF r.raised = NoExc THEN
            /\ user_cache' = r.user_cache
            /\ geocode_cache' = r.geocode_cache
            /\ profile' = r.result
            /\ pc' = "PERSISTING"
            /\ UNCHANGED << log, committed, db, storeUp, position, msg, event, txn, conn,
                            processed, errors, exc, calls, consumer, producer_vars >>
        ELSE IF IsMalformedError(r.raised) THEN
            /\ user_cache' = r.user_cache
            /\ geocode_cache' = r.geocode_cache
            /\ pc' = "MALFORMED"
            /\ UNCHANGED << log, committed, db, storeUp, position, msg, event, profile,
                            txn, conn, processed, errors, exc, calls, consumer, producer_vars >>
        ELSE Exit(r.raised)

\* a statement or a commit on a connection whose session the server lost raises
\* OperationalError and leaves the connection closed (line 261 catches it)
ConnectionLost ==
    /\ conn' = "closed"
    /\ pc' = "DB_ERROR"
    /\ UNCHANGED << log, committed, db, storeUp, position, msg, event, profile, txn,
                    processed, errors, exc, user_cache, geocode_cache, calls, consumer, producer_vars >>

\* the step after write_event in the try block
AfterWriteSkipDbCommit == "COMMITTING"

\* the step after write_event in the try block (246-247): conn.commit()
AfterWrite == "DB_COMMIT"

\* line 246: write_event(cur, event, profile)
Persist ==
    /\ pc = "PERSISTING"
    /\ IF TimestampRaises(event) # NoExc THEN Exit(TimestampRaises(event))
       ELSE IF conn = "dead" THEN ConnectionLost
       ELSE \E ok \in BOOLEAN :
            /\ IF ok
               THEN LET after == InsertSql(Visible, RowOf(event, profile)) IN
                    /\ txn' = [ open |-> TRUE,
                                rows |-> SubSeq(after, Len(db) + 1, Len(after)) ]
                    /\ pc' = AfterWrite
               ELSE /\ txn' = [ txn EXCEPT !.open = TRUE ]
                    /\ pc' = "DB_ERROR"
            /\ UNCHANGED << log, committed, db, storeUp, position, msg, event, profile,
                            conn, processed, errors, exc, user_cache, geocode_cache, calls, consumer, producer_vars >>

\* line 247: conn.commit()
DbCommit ==
    /\ pc = "DB_COMMIT"
    /\ IF conn = "dead" THEN ConnectionLost
       ELSE /\ db' = db \o txn.rows
            /\ txn' = TxnIdle
            /\ pc' = "COMMITTING"
            /\ UNCHANGED << log, committed, storeUp, position, msg, event, profile, conn,
                            processed, errors, exc, user_cache, geocode_cache, calls, consumer, producer_vars >>

\* lines 248-255: consumer.commit(asynchronous=False) commits the consumer's
\* position, then the processed counter
OffsetCommit ==
    /\ pc = "COMMITTING"
    /\ committed' = position
    /\ processed' = processed + 1
    /\ BackToPolling
    /\ UNCHANGED << log, db, storeUp, position, txn, conn,
                    errors, exc, user_cache, geocode_cache, calls, consumer, producer_vars >>

\* line 248 when the broker does not take the commit: KafkaException, which no
\* except clause names
OffsetCommitFails ==
    /\ pc = "COMMITTING"
    /\ Exit("KafkaException")

\* conn.rollback() raises on a connection it knows closed (InterfaceError) and, with
\* a transaction open, on one whose session the server lost (OperationalError)
RollbackRaises ==
    IF conn = "closed" THEN "InterfaceError"
    ELSE IF conn = "dead" /\ txn.open THEN "OperationalError"
    ELSE NoExc

\* lines 257-260: the malformed-message clause
HandleMalformed ==
    /\ pc = "MALFORMED"
    /\ IF RollbackRaises # NoExc THEN Exit(RollbackRaises)
       ELSE /\ txn' = TxnIdle
            /\ errors' = errors + 1
            /\ BackToPolling
            /\ UNCHANGED << log, committed, db, storeUp, position,
                            conn, processed, exc, user_cache, geocode_cache, calls, consumer, producer_vars >>

\* a store-error clause that counts the error and goes on with the connection
\* as it is, without rollback or reconnect
HandleDbErrorNoRollback ==
    /\ pc = "DB_ERROR"
    /\ errors' = errors + 1
    /\ BackToPolling
    /\ UNCHANGED << log, committed, db, storeUp, position, txn, conn, processed, exc,
                    user_cache, geocode_cache, calls, consumer, producer_vars >>

\* lines 261-268: the store-error clause up to db_connect()
HandleDbError ==
    /\ pc = "DB_ERROR"
    /\ IF RollbackRaises # NoExc THEN Exit(RollbackRaises)
       ELSE /\ txn' = TxnIdle
            /\ conn' = "closed"
            /\ pc' = "RECONNECT"
            /\ UNCHANGED << log, committed, db, storeUp, position, msg, event, profile,
                            processed, errors, exc, user_cache, geocode_cache, calls, consumer, producer_vars >>

\* lines 269-271: db_connect() returns once the store is reachable, then the counter
Reconnect ==
    /\ pc = "RECONNECT"
    /\ storeUp
    /\ conn' = "open"
    /\ errors' = errors + 1
    /\ BackToPolling
    /\ UNCHANGED << log, committed, db, storeUp, position, txn,
                    processed, exc, user_cache, geocode_cache, calls, consumer, producer_vars >>

\* db_connect at line 269, lines 169, 172-174: the store is still unreachable
ReconnectFails ==
    /\ pc = "RECONNECT"
    /\ ~storeUp
    /\ pc' = "RECONNECT_SLEEP"
    /\ UNCHANGED << log, committed, db, storeUp, position, msg, event, profile, txn,
                    conn, processed, errors, exc, user_cache, geocode_cache, calls, consumer, producer_vars >>

\* db_connect at line 269, lines 174, 167: the next attempt
ReconnectRetry ==
    /\ pc = "RECONNECT_SLEEP"
    /\ pc' = "RECONNECT"
    /\ UNCHANGED << log, committed, db, storeUp, position, msg, event, profile, txn,
                    conn, processed, errors, exc, user_cache, geocode_cache, calls, consumer, producer_vars >>

(***************************************************************************)
(* The environment of the process.                                         *)
(***************************************************************************)
\* the store goes away: the session of an open connection is lost with it
StoreFails ==
    /\ storeUp
    /\ storeUp' = FALSE
    /\ conn' = IF conn = "open" THEN "dead" ELSE conn
    /\ UNCHANGED << log, committed, db, pc, position, msg, event, profile, txn,
                    processed, errors, exc, user_cache, geocode_cache, calls, consumer, producer_vars >>

StoreRecovers ==
    /\ ~storeUp
    /\ storeUp' = TRUE
    /\ UNCHANGED << log, committed, db, pc, position, msg, event, profile, txn, conn,
                    processed, errors, exc, user_cache, geocode_cache, calls, consumer, producer_vars >>

\* the process is killed or its host fails, anywhere
Crash ==
    /\ pc \notin {"DOWN", "EXITED", "STOPPED"}
    /\ pc' = "DOWN"
    /\ exc' = NoException
    /\ conn' = "none"
    /\ consumer' = "none"
    /\ ProcessGone
    /\ UNCHANGED << log, committed, db, storeUp, calls, producer_vars >>

\* where the try block of lines 227-271 is
MainLoopStates ==
    { "POLLING", "PARSING", "ENRICHING", "PERSISTING", "DB_COMMIT", "COMMITTING",
      "MALFORMED", "DB_ERROR", "RECONNECT", "RECONNECT_SLEEP" }

\* SIGINT while the loop runs: KeyboardInterrupt leaves the try block wherever
\* it is, line 273 catches it, the finally clause runs and main() returns
Interrupt ==
    /\ pc \in MainLoopStates
    /\ pc' = "STOPPED"
    /\ exc' = [ type |-> "KeyboardInterrupt", at |-> pc ]
    /\ Finally
    /\ ProcessGone
    /\ UNCHANGED << log, db, storeUp, calls, producer_vars >>

\* SIGINT during the db_connect of line 221, which is outside the try block:
\* KeyboardInterrupt ends the process, nothing is closed
InterruptConnecting ==
    /\ pc \in {"STARTING", "STARTING_SLEEP"}
    /\ pc' = "EXITED"
    /\ exc' = [ type |-> "KeyboardInterrupt", at |-> pc ]
    /\ conn' = "none"
    /\ consumer' = "none"
    /\ ProcessGone
    /\ UNCHANGED << log, committed, db, storeUp, calls, producer_vars >>

\* the process is started again (204-219)
Restart ==
    /\ pc \in {"DOWN", "EXITED", "STOPPED"}
    /\ pc' = "STARTING"
    /\ exc' = NoException
    /\ position' = RestartPosition
    /\ conn' = "none"
    /\ consumer' = "subscribed"
    /\ UNCHANGED << log, committed, db, storeUp, msg, event, profile, txn,
                    processed, errors, user_cache, geocode_cache, calls, producer_vars >>

Next ==
    \/ DbConnect
    \/ DbConnectFails
    \/ DbConnectRetry
    \/ Poll
    \/ PollError
    \/ Parse
    \/ Enrich
    \/ Persist
    \/ DbCommit
    \/ OffsetCommit
    \/ OffsetCommitFails
    \/ HandleMalformed
    \/ HandleDbError
    \/ Reconnect
    \/ ReconnectFails
    \/ ReconnectRetry
    \/ StoreFails
    \/ StoreRecovers
    \/ Crash
    \/ Interrupt
    \/ InterruptConnecting
    \/ Restart

Spec == Init /\ [][Next]_vars

\* Spec with both services answering well-formed bodies only: fetch_profile
\* returns from every call
EnrichReturns == Enrich /\ pc' = "PERSISTING"

NextWellFormedAnswers ==
    \/ DbConnect
    \/ DbConnectFails
    \/ DbConnectRetry
    \/ Poll
    \/ PollError
    \/ Parse
    \/ EnrichReturns
    \/ Persist
    \/ DbCommit
    \/ OffsetCommit
    \/ OffsetCommitFails
    \/ HandleMalformed
    \/ HandleDbError
    \/ Reconnect
    \/ ReconnectFails
    \/ ReconnectRetry
    \/ StoreFails
    \/ StoreRecovers
    \/ Crash
    \/ Interrupt
    \/ InterruptConnecting
    \/ Restart

SpecWellFormedAnswers == Init /\ [][NextWellFormedAnswers]_vars

(***************************************************************************)
(* SpecTimestamps: the main loop on a topic whose messages carry every     *)
(* value of created_at.                                                    *)
(***************************************************************************)
InitTimestamps ==
    /\ log \in [ 1..MaxLog -> TimestampMessages ]
    /\ committed = 1
    /\ db = <<>>
    /\ storeUp = TRUE
    /\ pc = "STARTING"
    /\ position = 1
    /\ msg = 0
    /\ event = EmptyDict
    /\ profile = EmptyDict
    /\ txn = TxnIdle
    /\ conn = "none"
    /\ processed = 0
    /\ errors = 0
    /\ exc = NoException
    /\ user_cache = EmptyDict
    /\ geocode_cache = EmptyDict
    /\ calls = <<>>
    /\ consumer = "subscribed"
    /\ ProducerInit

SpecTimestamps == InitTimestamps /\ [][Next]_vars

(***************************************************************************)
(* SpecDetail: extract_detail applied to one event, drawn from every        *)
(* combination of an event type, a payload and the other fields.           *)
(***************************************************************************)
DetailTypes ==
    { <<"PushEvent">>, <<"PullRequestEvent">>, <<"IssuesEvent">>, <<"CreateEvent">>,
      <<"WatchEvent">>, <<"ReleaseEvent">>, <<"ForkEvent">>, <<>> }

DetailPayloads ==
    { EmptyDict,
      [ commits |-> <<>> ],
      [ commits |-> <<"c1">> ],
      [ commits |-> <<"c1", "c2", "c3">> ],
      [ action |-> <<"opened">> ],
      [ action |-> <<"started">>, commits |-> <<"c1", "c2">> ],
      [ ref_type |-> <<"branch">>, ref |-> <<"main">> ],
      [ ref_type |-> <<"repository">> ],
      [ ref |-> <<"main">> ],
      [ release |-> [ tag_name |-> <<"v2.0">> ] ],
      [ release |-> EmptyDict ] }

\* events with type and payload, without payload, and without either
DetailEvents ==
    { [ id |-> i, type |-> t, payload |-> p, actor |-> [ login |-> <<"a">> ] ] :
          i \in { <<"1">>, <<"2">> }, t \in DetailTypes, p \in DetailPayloads }
        \cup { [ id |-> <<"1">>, type |-> t ] : t \in DetailTypes }
        \cup { [ id |-> <<"1">>, payload |-> p ] : p \in DetailPayloads }

InitDetail ==
    /\ log = <<>>
    /\ committed = 1
    /\ db = <<>>
    /\ storeUp = TRUE
    /\ pc = "DETAIL"
    /\ position = 1
    /\ msg = 0
    /\ event \in DetailEvents
    /\ profile = EmptyDict
    /\ txn = TxnIdle
    /\ conn = "open"
    /\ processed = 0
    /\ errors = 0
    /\ exc = NoException
    /\ user_cache = EmptyDict
    /\ geocode_cache = EmptyDict
    /\ calls = <<>>
    /\ consumer = "subscribed"
    /\ ProducerInit

\* line 190: extract_detail(event)
CallExtractDetail ==
    /\ pc = "DETAIL"
    /\ calls' = Append(calls, [ fn |-> "extract_detail", arg |-> event,
                                result |-> extract_detail(event) ])
    /\ pc' = "DETAIL_DONE"
    /\ UNCHANGED << log, committed, db, storeUp, position, msg, event, profile, txn,
                    conn, processed, errors, exc, user_cache, geocode_cache, consumer, producer_vars >>

SpecDetail == InitDetail /\ [][CallExtractDetail]_vars

(***************************************************************************)
(* The producer (producer.py).  A response of the events API to the        *)
(* request for one page is one of                                          *)
(*   [kind |-> "ok", etag |-> t, events |-> es]  status 200, the list es;  *)
(*   [kind |-> "304"]     not modified, sent only to a conditional request;*)
(*   [kind |-> "403"]     rate-limited;                                    *)
(*   [kind |-> "error"]   requests.RequestException: a transport failure   *)
(*                        or the HTTPError of raise_for_status.            *)
(* The caps of the seen-id set, 10 000 and 8 000 in the source, are scaled *)
(* to 2 and 1.                                                             *)
(***************************************************************************)
\* producer.py 35: the default of MAX_PAGES
MAX_PAGES == 3

\* producer.py 164: the size above which seen_ids is trimmed (10_000, scaled)
SeenCap == 2

\* producer.py 165: the size seen_ids is trimmed to (8_000, scaled)
SeenKeep == 1

ApiEvent(id) == [ id |-> id, type |-> <<"WatchEvent">> ]

\* an event of the API without an id
ApiEventNoId == [ type |-> <<"WatchEvent">> ]

PageEvents ==
    { <<>>,
      << ApiEvent(<<"1">>) >>,
      << ApiEvent(<<"1">>), ApiEvent(<<"2">>) >>,
      << ApiEvent(<<"2">>), ApiEvent(<<"3">>) >>,
      << ApiEventNoId, ApiEvent(<<"3">>) >> }

PageResponses ==
    { [ kind |-> "ok", etag |-> <<"e1">>, events |-> es ] : es \in PageEvents }
        \cup { [ kind |-> "304", etag |-> <<>>, events |-> <<>> ],
               [ kind |-> "403", etag |-> <<>>, events |-> <<>> ],
               [ kind |-> "error", etag |-> <<>>, events |-> <<>> ] }

\* producer.py 106-110: the events of one page whose id is not in seen_ids are
\* added to it and to new_events
RECURSIVE AddNew(_, _, _)
AddNew(seen, new, es) ==
    IF es = <<>> THEN [ seen_ids |-> seen, new_events |-> new ]
    ELSE LET eid == Get(Head(es), "id") IN
         IF eid # None /\ eid # <<>> /\ eid \notin seen
         THEN AddNew(seen \cup {eid}, Append(new, Head(es)), Tail(es))
         ELSE AddNew(seen, new, Tail(es))

\* producer.py 81-116: the loop over the pages, from page `page` on; anything
\* but a 200 response ends it
RECURSIVE FetchPages(_, _, _, _, _)
FetchPages(page, seen, etag, new, resps) ==
    IF page > MAX_PAGES \/ resps[page].kind # "ok" THEN
        [ seen_ids |-> seen, last_etag |-> etag, new_events |-> new ]
    ELSE
        LET added == AddNew(seen, new, resps[page].events) IN
        FetchPages(page + 1, added.seen_ids,
                   IF page = 1 THEN resps[page].etag ELSE etag,
                   added.new_events, resps)

\* producer.py 151-152: poll_count += 1; events = fetch_events()
ProducerFetch ==
    /\ ppc = "P_FETCH"
    /\ poll_count < MaxPolls
    /\ \E resps \in [ 1..MAX_PAGES -> PageResponses ] :
        /\ last_etag = <<>> => \A page \in 1..MAX_PAGES : resps[page].kind # "304"
        /\ LET r == FetchPages(1, seen_ids, last_etag, <<>>, resps) IN
            /\ seen_ids' = r.seen_ids
            /\ last_etag' = r.last_etag
            /\ new_events' = r.new_events
    /\ poll_count' = poll_count + 1
    /\ ppc' = "P_PUBLISH"
    /\ UNCHANGED << log, committed, db, storeUp, pc, position, msg, event, profile, txn,
                    conn, processed, errors, exc, user_cache, geocode_cache, calls,
                    consumer, sent_total >>

\* producer.py 124-129: the message produced for an event
MessageOf(e) ==
    [ kind |-> "object",
      event |-> [ k \in DOMAIN e \cup {"_ingested_at"} |->
                    IF k = "_ingested_at" THEN Now ELSE e[k] ] ]

\* producer.py 154-161, 119-136: publish_events(producer, events) when there are any
ProducerPublish ==
    /\ ppc = "P_PUBLISH"
    /\ log' = log \o [ i \in 1..Len(new_events) |-> MessageOf(new_events[i]) ]
    /\ sent_total' = sent_total + Len(new_events)
    /\ ppc' = "P_TRIM"
    /\ UNCHANGED << committed, db, storeUp, pc, position, msg, event, profile, txn,
                    conn, processed, errors, exc, user_cache, geocode_cache, calls,
                    consumer, seen_ids, last_etag, poll_count, new_events >>

\* producer.py 163-167: what seen_ids can be after the trim: above the cap,
\* set.pop() removes arbitrary elements until SeenKeep are left
Trimmed(seen) ==
    IF Cardinality(seen) > SeenCap
    THEN { kept \in SUBSET seen : Cardinality(kept) = SeenKeep }
    ELSE { seen }

\* producer.py 163-169: the trim, then the sleep before the next cycle
ProducerTrim ==
    /\ ppc = "P_TRIM"
    /\ seen_ids' \in Trimmed(seen_ids)
    /\ new_events' = <<>>
    /\ ppc' = "P_FETCH"
    /\ UNCHANGED << log, committed, db, storeUp, pc, position, msg, event, profile, txn,
                    conn, processed, errors, exc, user_cache, geocode_cache, calls,
                    consumer, last_etag, poll_count, sent_total >>

\* the producer alone, publishing to an empty topic
InitProducer ==
    /\ log = <<>>
    /\ committed = 1
    /\ db = <<>>
    /\ storeUp = TRUE
    /\ pc = "DOWN"
    /\ position = 0
    /\ msg = 0
    /\ event = EmptyDict
    /\ profile = EmptyDict
    /\ txn = TxnIdle
    /\ conn = "none"
    /\ processed = 0
    /\ errors = 0
    /\ exc = NoException
    /\ user_cache = EmptyDict
    /\ geocode_cache = EmptyDict
    /\ calls = <<>>
    /\ consumer = "none"
    /\ ProducerInit

NextProducer == ProducerFetch \/ ProducerPublish \/ ProducerTrim

SpecProducer == InitProducer /\ [][NextProducer]_vars

(***************************************************************************)
(* SpecConnect: the start of main() up to the first poll, lines 219-229,   *)
(* with the store going away and coming back at any time.  The process,    *)
(* while it runs, takes its next step: each attempt of db_connect, the end *)
(* of each sleep and the return from db_connect are weakly fair.           *)
(***************************************************************************)
NextConnect ==
    \/ DbConnect
    \/ DbConnectFails
    \/ DbConnectRetry
    \/ StoreFails
    \/ StoreRecovers

SpecConnect ==
    /\ Init
    /\ [][NextConnect]_vars
    /\ WF_vars(DbConnect)
    /\ WF_vars(DbConnectFails)
    /\ WF_vars(DbConnectRetry)

(***************************************************************************)
(* SpecEnrich: one process calling fetch_profile and geocode, as the try   *)
(* block of main() calls them, against every answer of the two services.   *)
(* calls records, per call, the arguments, what came back and the traffic  *)
(* it caused.                                                              *)
(***************************************************************************)
InitEnrich ==
    /\ log = <<>>
    /\ committed = 1
    /\ db = <<>>
    /\ storeUp = TRUE
    /\ pc = "ENRICHING"
    /\ position = 1
    /\ msg = 0
    /\ event = EmptyDict
    /\ profile = EmptyDict
    /\ txn = TxnIdle
    /\ conn = "open"
    /\ processed = 0
    /\ errors = 0
    /\ exc = NoException
    /\ user_cache = EmptyDict
    /\ geocode_cache = EmptyDict
    /\ calls = <<>>
    /\ consumer = "subscribed"
    /\ ProducerInit

\* after a call: the loop goes on when the call returned or raised what line 257
\* absorbs, and the process ends otherwise
AfterCall(raised) ==
    IF raised = NoExc \/ IsMalformedError(raised) THEN "ENRICHING" ELSE "EXITED"

CallFetchProfile ==
    /\ pc = "ENRICHING"
    /\ Len(calls) < MaxCalls
    /\ \E username \in Logins, ghResp \in GithubResponses, geoResp \in GeoResponses :
        LET r == FetchProfile(user_cache, geocode_cache, username, ghResp, geoResp) IN
        /\ user_cache' = r.user_cache
        /\ geocode_cache' = r.geocode_cache
        /\ calls' = Append(calls,
                [ fn |-> "fetch_profile", arg |-> username,
                  gh |-> IF r.gh_requests = 0 THEN "none" ELSE ghResp.kind,
                  geo |-> IF r.geo_requests = 0 THEN "none" ELSE geoResp.kind,
                  result |-> r.result,
                  gh_requests |-> r.gh_requests, geo_requests |-> r.geo_requests,
                  sleeps |-> r.sleeps, raised |-> r.raised ])
        /\ pc' = AfterCall(r.raised)
    /\ UNCHANGED << log, committed, db, storeUp, position, msg, event, profile, txn,
                    conn, processed, errors, exc, consumer, producer_vars >>

CallGeocode ==
    /\ pc = "ENRICHING"
    /\ Len(calls) < MaxCalls
    /\ \E location \in Locations, geoResp \in GeoResponses :
        LET r == Geocode(geocode_cache, location, geoResp) IN
        /\ geocode_cache' = r.cache
        /\ calls' = Append(calls,
                [ fn |-> "geocode", arg |-> location, gh |-> "none",
                  geo |-> IF r.requests = 0 THEN "none" ELSE geoResp.kind,
                  result |-> r.result,
                  gh_requests |-> 0, geo_requests |-> r.requests,
                  sleeps |-> r.sleeps, raised |-> r.raised ])
        /\ pc' = AfterCall(r.raised)
    /\ UNCHANGED << log, committed, db, storeUp, position, msg, event, profile, txn,
                    conn, processed, errors, exc, user_cache, consumer, producer_vars >>

NextEnrich == CallFetchProfile \/ CallGeocode

SpecEnrich == InitEnrich /\ [][NextEnrich]_vars

(***************************************************************************)
(* Properties of the main loop, checked under Spec.                        *)
(***************************************************************************)
\* the table holds a row with this event id
HasRow(table, id) == \E i \in 1..Len(table) : table[i].event_id = id

\* no two rows of the table carry the same event id
UniqueEventIds(table) ==
    \A i, j \in 1..Len(table) : table[i].event_id = table[j].event_id => i = j

\* the rows of `old` are the first rows of `new`, unchanged
KeepsRows(old, new) == Len(new) >= Len(old) /\ SubSeq(new, 1, Len(old)) = old

\* C1: the offset commit of a message is issued only from the commit step of
\* that message's own iteration, and the loop is at that step only when the
\* database transaction holding the message's row has committed: the
\* connection has no open transaction and the row's event id is in the table.
C1_DbCommitBeforeOffsetCommit ==
    [][ /\ committed' # committed =>
            /\ pc = "COMMITTING"
            /\ committed' = msg + 1
        /\ pc' = "COMMITTING" =>
            /\ ~txn'.open
            /\ HasRow(db', Get(event', "id")) ]_vars

\* C1 witness: one message went through database commit and offset commit.
C1_Witness == pc = "POLLING" /\ committed = 2 /\ processed = 1 /\ Len(db) = 1

\* C2: every well-formed message below the committed offset has a row with
\* its event id in the store (checked with the services answering well-formed
\* bodies, so that only deliveries, store failures, reconnects and restarts
\* are in play).
C2_NoSilentDataLoss ==
    \A i \in 1..Len(log) :
        (i < committed /\ WellFormed(log[i])) => HasRow(db, log[i].event.id)

\* C3: the store never holds two rows with one event id, a row once stored is
\* never changed or removed, and a write for an event id that is already
\* stored succeeds without inserting anything.
C3_IdempotentPersistence ==
    [][ /\ UniqueEventIds(db')
        /\ KeepsRows(db, db')
        /\ (pc = "PERSISTING" /\ pc' = "DB_COMMIT" /\ HasRow(db, Get(event, "id")))
              => txn'.rows = <<>>
        /\ (pc = "DB_COMMIT" /\ pc' = "COMMITTING" /\ HasRow(db, Get(event, "id")))
              => db' = db ]_vars

\* C3 witness: an event id already stored was written again with other row
\* contents, and the write went through as a no-op.
C3_Witness ==
    /\ pc = "COMMITTING"
    /\ Len(db) = 1
    /\ db[1].event_id = Get(event, "id")
    /\ db[1] # RowOf(event, profile)

\* C4: a crash changes neither the store nor the committed offset; the
\* message in flight is at or above the committed offset, from which the
\* restarted consumer reads, so it is delivered again; its re-insert is skipped
\* when its row is stored and inserts the row once when it is not; no event id
\* is ever stored twice and no stored row is lost.
C4_CrashSafety ==
    [][ /\ UniqueEventIds(db')
        /\ KeepsRows(db, db')
        /\ (pc' \in {"DOWN", "EXITED"} /\ pc' # pc) => (db' = db /\ committed' = committed)
        /\ msg # 0 => committed <= msg
        /\ (pc \in {"DOWN", "EXITED"} /\ pc' = "STARTING") => position' = committed
        /\ (pc = "PERSISTING" /\ pc' = "DB_COMMIT") =>
              txn'.rows = IF HasRow(db, Get(event, "id")) THEN <<>>
                          ELSE << RowOf(event, profile) >>
        /\ (pc = "DB_COMMIT" /\ pc' = "COMMITTING") => HasRow(db', Get(event, "id")) ]_vars

\* the messages of the topic carry pairwise different event ids
DistinctIds ==
    \A i, j \in 1..Len(log) :
        (log[i].kind = "object" /\ log[j].kind = "object"
            /\ log[i].event.id = log[j].event.id) => i = j

\* C4 witness: the process died after the database commit of a message and
\* before its offset commit; after the restart the message was delivered again
\* and its insert was skipped.
C4_Witness ==
    /\ DistinctIds
    /\ pc = "DB_COMMIT"
    /\ committed <= msg
    /\ txn.rows = <<>>
    /\ Len(db) = 1
    /\ HasRow(db, Get(event, "id"))

\* a body that cannot be decoded: not UTF-8, or not JSON
Undecodable(m) == m.kind \in {"badutf8", "badjson"}

\* C5: a message whose body cannot be decoded is absorbed by the loop: it
\* goes to the malformed-message clause, which adds one to the error counter,
\* writes no row, commits no offset and returns to POLLING.
C5_MalformedInputAbsorbed ==
    [][ /\ (pc = "PARSING" /\ Undecodable(log[msg]) /\ pc' \notin {"PARSING", "DOWN"})
              => pc' = "MALFORMED"
        /\ (pc = "MALFORMED" /\ pc' \notin {"MALFORMED", "DOWN"})
              => /\ pc' = "POLLING"
                 /\ errors' = errors + 1
                 /\ db' = db
                 /\ committed' = committed ]_vars

\* C6: a decodable message that lacks a required field is dropped like a
\* malformed one: no row with its event id is stored and the loop never
\* reaches the offset commit with it.  (Checked under SpecTimestamps, whose
\* topic has a message without created_at.)
C6_MissingFieldIsMalformed ==
    /\ \A i \in 1..Len(log) :
          (log[i].kind = "object" /\ ~HasRequiredFields(log[i].event))
              => ~HasRow(db, Get(log[i].event, "id"))
    /\ pc = "COMMITTING" => HasRequiredFields(event)

\* C7: no error raised while parsing, enriching or persisting a message ends
\* the loop.
C7_NoErrorEndsTheLoop ==
    pc = "EXITED" =>
        exc.at \notin {"PARSING", "ENRICHING", "PERSISTING", "DB_COMMIT", "MALFORMED",
                       "DB_ERROR"}

\* C8: after a store error the loop rolls back, reconnects (retrying while the
\* store is unreachable), adds one to the error counter, leaves the processed
\* counter and the committed offset alone, and is back in POLLING with an open
\* connection.
C8_StoreFailurePolicy ==
    [][ /\ (pc = "DB_ERROR" /\ pc' \notin {"DB_ERROR", "DOWN"})
              => /\ pc' = "RECONNECT"
                 /\ ~txn'.open
                 /\ processed' = processed
                 /\ committed' = committed
        /\ (pc = "RECONNECT" /\ pc' \notin {"RECONNECT", "RECONNECT_SLEEP", "DOWN"})
              => /\ pc' = "POLLING"
                 /\ conn' = "open"
                 /\ errors' = errors + 1
                 /\ processed' = processed
                 /\ committed' = committed ]_vars

(***************************************************************************)
(* Properties of the enrichment functions, checked under SpecEnrich.       *)
(***************************************************************************)
IsFetch(i) == calls[i].fn = "fetch_profile"

IsGeocode(i) == calls[i].fn = "geocode"

\* C9: of two fetch_profile calls for one login the later one issues no
\* identity-API request and returns the profile the earlier one returned, and
\* a lookup that failed (non-success status, transport failure) returns the
\* all-null profile.
C9_ProfileNegativeCaching ==
    /\ \A i, j \in 1..Len(calls) :
          (i < j /\ IsFetch(i) /\ IsFetch(j) /\ calls[i].arg = calls[j].arg)
              => /\ calls[j].gh_requests = 0
                 /\ calls[j].result = calls[i].result
    /\ \A i \in 1..Len(calls) :
          (IsFetch(i) /\ calls[i].gh \in {"status", "transport"})
              => calls[i].result = NullProfile

\* C10: two consecutive geocode calls for non-empty locations that are equal
\* after lowercasing and trimming, the first made before any geocoding
\* request, issue exactly one request together and return the same result.
C10_GeocodeKeyNormalisation ==
    \A i \in 1..Len(calls) :
        ( /\ i < Len(calls)
          /\ IsGeocode(i) /\ IsGeocode(i + 1)
          /\ calls[i].arg # <<>> /\ calls[i + 1].arg # <<>>
          /\ GeoKey(calls[i].arg) = GeoKey(calls[i + 1].arg)
          /\ \A k \in 1..(i - 1) : calls[k].geo_requests = 0 )
        => /\ calls[i].geo_requests + calls[i + 1].geo_requests = 1
           /\ calls[i].result = calls[i + 1].result

\* every entry of `old` is in `new` under the same key with the same value
KeepsEntries(old, new) ==
    \A k \in DOMAIN old : k \in DOMAIN new /\ new[k] = old[k]

\* the call a step of SpecEnrich has just recorded
LastCall(cs) == cs[Len(cs)]

\* C11: no step of the process removes a key from the profile cache or the
\* geocode cache or replaces the value under a key; a call adds at most one
\* entry to each cache, and adds one only when it missed that cache and went
\* to the service.
C11_CachePermanence ==
    [][ /\ KeepsEntries(user_cache, user_cache')
        /\ KeepsEntries(geocode_cache, geocode_cache')
        /\ Cardinality(DOMAIN user_cache') <= Cardinality(DOMAIN user_cache) + 1
        /\ Cardinality(DOMAIN geocode_cache') <= Cardinality(DOMAIN geocode_cache) + 1
        /\ user_cache' # user_cache => LastCall(calls').gh_requests = 1
        /\ geocode_cache' # geocode_cache => LastCall(calls').geo_requests = 1 ]_vars

\* C11 witness: a second lookup missed the profile cache and added its entry
\* beside the first one, with the geocode entry of the first lookup in place.
C11_Witness ==
    /\ Cardinality(DOMAIN user_cache) = 2
    /\ Cardinality(DOMAIN geocode_cache) = 1
    /\ Len(calls) = 2
    /\ LastCall(calls).geo_requests = 0

\* country, country_code, lat and lng of a geocode result are all null
AllNull(d) == \A k \in {"country", "country_code", "lat", "lng"} : Get(d, k) = None

\* the answers of the geocoding service that are failures: no match, a status
\* other than 200, a transport failure
GeoFailureKinds == {"nohits", "status", "transport"}

\* call i is a geocode call of one of the three failure shapes
IsGeoFailure(i) ==
    IsGeocode(i) /\ (calls[i].arg = <<>> \/ calls[i].geo \in GeoFailureKinds)

\* C12: a geocode call with no match, with empty input, or with a transport
\* failure or non-success status returns a result whose four fields are null,
\* that result is in the geocode cache under the normalised key, and a later
\* call with the same input makes no request.
C12_GeocodeNegativeCaching ==
    \A i \in 1..Len(calls) :
        IsGeoFailure(i) =>
            /\ AllNull(calls[i].result)
            /\ GeoKey(calls[i].arg) \in DOMAIN geocode_cache
            /\ geocode_cache[GeoKey(calls[i].arg)] = calls[i].result
            /\ \A j \in (i + 1)..Len(calls) :
                  (IsGeocode(j) /\ calls[j].arg = calls[i].arg) => calls[j].geo_requests = 0

\* C12 as amended: a geocode call with no match, a transport failure or a
\* non-success status returns the all-null result and stores it in the cache
\* under the normalised key; a call with empty input returns the all-null
\* result without a request and without touching the cache; after either, a
\* call with the same input makes no request and returns the same result.
C12_NegativeCachingExceptEmptyInput ==
    [][ (calls' # calls /\ LastCall(calls').fn = "geocode") =>
          LET c == LastCall(calls') IN
          /\ c.arg = <<>> =>
                /\ AllNull(c.result)
                /\ c.geo_requests = 0
                /\ geocode_cache' = geocode_cache
          /\ (c.arg # <<>> /\ c.geo \in GeoFailureKinds) =>
                /\ AllNull(c.result)
                /\ GeoKey(c.arg) \in DOMAIN geocode_cache'
                /\ geocode_cache'[GeoKey(c.arg)] = c.result
          /\ \A i \in 1..Len(calls) :
                (IsGeoFailure(i) /\ calls[i].arg = c.arg) =>
                    /\ c.geo_requests = 0
                    /\ c.result = calls[i].result ]_vars

\* C12 witness: a lookup that failed at the service was followed by a lookup of
\* the same non-empty input, which made no request.
C12_Witness ==
    /\ Len(calls) = 2
    /\ IsGeocode(1) /\ IsGeocode(2)
    /\ calls[1].arg # <<>>
    /\ calls[1].arg = calls[2].arg
    /\ calls[1].geo \in GeoFailureKinds
    /\ calls[2].geo_requests = 0

(***************************************************************************)
(* Properties of db_connect, checked under SpecConnect.                    *)
(***************************************************************************)
\* the process is inside db_connect at the start of main()
InDbConnect == pc \in {"STARTING", "STARTING_SLEEP"}

\* C13: db_connect returns only with an open connection to a reachable store;
\* while the store is unreachable the process stays in db_connect, attempt
\* after sleep after attempt, and raises nothing; and if from some time on the
\* store stays reachable, db_connect returns with an open connection and the
\* consumer is polling.
C13_BlockingConnect ==
    /\ [][ /\ (InDbConnect /\ ~InDbConnect')
                  => (storeUp /\ conn' = "open" /\ pc' = "POLLING")
           /\ (InDbConnect /\ ~storeUp) => (InDbConnect' /\ exc' = NoException)
           /\ (pc = "STARTING_SLEEP" /\ pc' # pc) => pc' = "STARTING" ]_vars
    /\ (<>[]storeUp) => <>(pc = "POLLING" /\ conn = "open")

\* C13 witness: an attempt failed while the store was unreachable, and the
\* store has come back while db_connect sleeps before its next attempt.
C13_Witness == pc = "STARTING_SLEEP" /\ storeUp /\ conn = "none"

(***************************************************************************)
(* Properties of the shutdown, checked under Spec.                         *)
(***************************************************************************)
\* C14: an interrupt is taken in every state of the main loop; the step that
\* takes it ends in the final state STOPPED with the consumer and the
\* connection closed and nothing of the current message in memory, and changes
\* neither the store nor the committed offset, so that a message whose row is
\* committed and whose offset is not stays at or above the committed offset;
\* from STOPPED the only step is the restart, which reads from the committed
\* offset and so delivers that message again.
C14_OrderlyShutdown ==
    [][ /\ pc \in MainLoopStates => ENABLED Interrupt
        /\ (pc \in MainLoopStates /\ pc' = "STOPPED") =>
              /\ consumer' = "closed"
              /\ conn' = "closed"
              /\ ~txn'.open
              /\ db' = db
              /\ committed' = committed
              /\ (pc = "COMMITTING" =>
                    (HasRow(db', Get(event, "id")) /\ committed' <= msg))
        /\ (pc = "STOPPED" /\ pc' # pc) =>
              /\ pc' = "STARTING"
              /\ position' = committed
              /\ consumer' = "subscribed" ]_vars

\* C14 witness: the interrupt came after the database commit of the first
\* message and before its offset commit; consumer and connection are closed,
\* the row is stored and the committed offset still is the message's.
C14_Witness ==
    /\ pc = "STOPPED"
    /\ exc = [ type |-> "KeyboardInterrupt", at |-> "COMMITTING" ]
    /\ consumer = "closed"
    /\ conn = "closed"
    /\ Len(db) = 1
    /\ committed = 1

(***************************************************************************)
(* Properties of write_event, checked under SpecTimestamps.                *)
(***************************************************************************)
\* the time write_event is to store for event e
ExpectedTime(e) ==
    LET v == GetOr(e, "created_at", <<>>) IN
    IF v = <<"2026-01-01T00:00:00Z">> THEN v ELSE Now

\* C15: whatever created_at is, write_event does not fail over it: unless the
\* store fails or the process is stopped, the step from PERSISTING performs
\* the insert, and a row it inserts carries the parsed created_at when that
\* has the expected format and the wall-clock time otherwise.
C15_TimestampFallback ==
    [][ (pc = "PERSISTING" /\ pc' \notin {"PERSISTING", "DB_ERROR", "DOWN", "STOPPED"})
          => /\ pc' = "DB_COMMIT"
             /\ txn'.open
             /\ \A i \in 1..Len(txn'.rows) : txn'.rows[i].time = ExpectedTime(event) ]_vars

(***************************************************************************)
(* Properties of extract_detail, checked under SpecDetail.                 *)
(***************************************************************************)
\* the table of section 4.4: the detail for an event type and a payload
DetailTable(type, payload) ==
    CASE type = <<"PushEvent">> ->
            << CASE "commits" \notin DOMAIN payload -> "0"
                 [] Len(payload.commits) = 0 -> "0"
                 [] Len(payload.commits) = 1 -> "1"
                 [] Len(payload.commits) = 2 -> "2"
                 [] Len(payload.commits) = 3 -> "3",
               " commit(s)" >>
      [] type \in { <<"PullRequestEvent">>, <<"IssuesEvent">> } ->
            IF "action" \in DOMAIN payload THEN payload.action ELSE <<>>
      [] type = <<"CreateEvent">> ->
            (IF "ref_type" \in DOMAIN payload THEN payload.ref_type ELSE <<>>)
                \o <<" '">>
                \o (IF "ref" \in DOMAIN payload THEN payload.ref ELSE <<>>)
                \o <<"'">>
      [] type = <<"WatchEvent">> ->
            IF "action" \in DOMAIN payload THEN payload.action ELSE <<"starred">>
      [] type = <<"ReleaseEvent">> ->
            IF "release" \in DOMAIN payload /\ "tag_name" \in DOMAIN payload.release
            THEN <<"tag ", payload.release.tag_name[1]>>
            ELSE <<"tag ">>
      [] OTHER -> <<>>

\* C16: the detail extract_detail returns for an event is the one the table
\* gives for the event's type and payload (an absent type being no listed
\* type and an absent payload the empty one), whatever the other fields of
\* the event are; in particular the four examples of section 8 come out.
C16_DetailDerivation ==
    \A i \in 1..Len(calls) :
        calls[i].fn = "extract_detail" =>
            LET e == calls[i].arg
                type == IF "type" \in DOMAIN e THEN e.type ELSE <<>>
                payload == IF "payload" \in DOMAIN e THEN e.payload ELSE EmptyDict
            IN  /\ calls[i].result = DetailTable(type, payload)
                /\ (type = <<"PushEvent">> /\ payload = [ commits |-> <<"c1", "c2", "c3">> ])
                      => calls[i].result = <<"3", " commit(s)">>
                /\ (type = <<"WatchEvent">> /\ payload = EmptyDict)
                      => calls[i].result = <<"starred">>
                /\ (type = <<"ReleaseEvent">> /\ payload = [ release |-> [ tag_name |-> <<"v2.0">> ] ])
                      => calls[i].result = <<"tag ", "v2.0">>
                /\ (type = <<"CreateEvent">>
                        /\ payload = [ ref_type |-> <<"branch">>, ref |-> <<"main">> ])
                      => calls[i].result = <<"branch", " '", "main", "'">>

\* C16 witness: extract_detail was applied to a watch event without an action.
C16_Witness ==
    /\ pc = "DETAIL_DONE"
    /\ Len(calls) = 1
    /\ Get(event, "type") = <<"WatchEvent">>
    /\ "payload" \in DOMAIN event
    /\ "action" \notin DOMAIN event.payload
    /\ calls[1].result = <<"starred">>

(***************************************************************************)
(* Properties of the producer, checked under SpecProducer.                 *)
(***************************************************************************)
\* the topic holds a message for this event id
Published(id) == \E i \in 1..Len(log) : Get(log[i].event, "id") = id

\* C17: no event id is in two messages of the topic, and once a cycle has
\* published, every id in the seen set has a message in the topic.
C17_ProducerDeduplication ==
    /\ \A i, j \in 1..Len(log) :
          Get(log[i].event, "id") = Get(log[j].event, "id") => i = j
    /\ ppc # "P_PUBLISH" => \A id \in seen_ids : Published(id)

(***************************************************************************)
(* Further properties of the enrichment functions, checked under           *)
(* SpecEnrich.                                                             *)
(***************************************************************************)
\* C18: between two geocoding requests of the process there is a delay: the
\* call that made the earlier request slept after it; and a call that made no
\* request (a cache hit, an empty input) did not sleep.
C18_GeocodeRateLimit ==
    /\ \A i, j \in 1..Len(calls) :
          (i < j /\ calls[i].geo_requests = 1 /\ calls[j].geo_requests = 1)
              => calls[i].sleeps = 1
    /\ \A i \in 1..Len(calls) :
          calls[i].geo_requests = 0 => calls[i].sleeps = 0

\* the four fields fetch_profile takes from the geocode result
GeoFields == {"country", "country_code", "lat", "lng"}

\* C19: every profile in the profile cache agrees with the geocode cache: with
\* a location, the geocode cache has an entry under the lowercased and trimmed
\* location and the profile's four geo fields are that entry's (null where the
\* entry has none); without a location, the four fields are null.
C19_CacheConsistency ==
    \A u \in DOMAIN user_cache :
        LET p == user_cache[u] IN
        IF p.location # None THEN
            /\ GeoKey(p.location) \in DOMAIN geocode_cache
            /\ \A k \in GeoFields : p[k] = Get(geocode_cache[GeoKey(p.location)], k)
        ELSE \A k \in GeoFields : p[k] = None

\* C19 witness: the cache holds a profile with a location that was resolved to
\* a country and coordinates, and a profile without a location.
C19_Witness ==
    /\ \E u \in DOMAIN user_cache :
          /\ user_cache[u].location # None
          /\ user_cache[u].country # None
          /\ user_cache[u].lat # None
    /\ \E u \in DOMAIN user_cache : user_cache[u].location = None

(***************************************************************************)
(* Properties of the transactions of the main loop, checked under Spec.    *)
(***************************************************************************)
\* C20: when the loop is about to poll, its connection has no open
\* transaction and no uncommitted row; and the rows a commit makes durable
\* are those of the current message only.
C20_TransactionHygiene ==
    /\ pc = "POLLING" => txn = TxnIdle
    /\ pc = "DB_COMMIT" =>
          /\ Len(txn.rows) <= 1
          /\ \A i \in 1..Len(txn.rows) : txn.rows[i] = RowOf(event, profile)

\* C20 witness: the write of the first message failed after its enrichment
\* had returned; the loop rolled back, reconnected and is about to poll again
\* with nothing stored and nothing committed.
C20_Witness ==
    /\ pc = "POLLING"
    /\ position = 2
    /\ committed = 1
    /\ errors = 1
    /\ DOMAIN user_cache # {}
    /\ conn = "open"
    /\ txn = TxnIdle
    /\ db = <<>>

====
